---- MODULE Spec2Model ----
(***************************************************************************)
(* Dispatch core of the AI gateway (boilerplates/python): the model        *)
(* registry, the dispatcher's validation, the LiteLLM catalog refresh      *)
(* paths, the single-chunk streaming fallback and the stream normalizer    *)
(* of the two OpenAI-protocol adapters.                                    *)
(*                                                                         *)
(* Python values are modelled as follows: None is the string "None"; a     *)
(* text (str) whose content matters is a sequence of tokens, so "" is      *)
(* <<>> and += is \o; a list object lives in a heap cell and is named by   *)
(* its reference, so that rebinding an attribute and mutating a list are   *)
(* different things.                                                       *)
(***************************************************************************)
EXTENDS Integers, Sequences, FiniteSets, TLC

VARIABLES
    heap,           \* list objects: reference -> sequence of AIModel
    litellm_ref,    \* ModelRegistry._litellm_models (a reference)
    op,             \* name of the last completed registry/dispatcher operation
    prior,          \* litellm catalog when that operation started
    vreq,           \* request given to the last dispatcher operation
    vres,           \* outcome of the last _validate_model_request
    probe,          \* upstream reply to the last litellm availability probe
    others,         \* upstream outcomes of the other three probes of that call
    arg,            \* argument of the update_litellm_models call of the last
                    \* operation (NoArg: it made none)
    fetch,          \* upstream reply to the last LiteLLMService.get_models
    ret,            \* value returned (or exception raised) by the last operation
    cfg,            \* config: per provider, whether an API key is configured
    rd_pc,          \* concurrent reader: "idle" | "copying" | "done"
    rd_ref,         \* list object the reader loaded from the registry
    rd_acc,         \* elements the reader has copied so far
    rd_seen,        \* catalogs that were current at some time during the read
    rd_updates,     \* replacements that happened during the read
    rd_result,      \* combined list the reader built
    gen,            \* generator of AIService.generate_stream: "none", "created",
                    \* "content" / "terminal" / "single" (suspended at that
                    \* yield), "ended", "raised"
    st_req,         \* the request being streamed
    st_reply,       \* upstream reply to the POST the stream makes
    st_lines,       \* what response.iter_lines() delivers, in order
    st_pos,         \* lines read so far
    st_chunk_id,    \* local chunk_id of the adapter's generator
    st_model,       \* local model
    st_acc,         \* local accumulated_content
    st_chunks,      \* chunks yielded so far
    st_err,         \* what the generator raised
    sse,            \* SSE frames stream_completion.generate has yielded
    transport,      \* the streamed upstream response: "none", "open", "released"
    cp_op,          \* last completion call: "none", "adapter" (an adapter's
                    \* generate_completion), "dispatch" (AIService.generate_completion)
    cp_provider,    \* the adapter called ("None" for a dispatch)
    cp_req,         \* its request
    cp_reply,       \* the upstream reply to its POST
    cp_out,         \* its outcome
    cp_calls,       \* the adapter methods that call invoked
    st_calls,       \* the adapter methods the stream has invoked so far
    av_provider,    \* adapter of the last check_availability call ("None": none)
    av_key,         \* the API key configured for it
    av_up,          \* what the upstream answers to its probe calls
    av_out,         \* its outcome
    av_calls        \* upstream calls it made

regVars == <<heap, litellm_ref, cfg, op, prior, vreq, vres, probe, others, fetch,
            ret, arg>>
rdVars == <<rd_pc, rd_ref, rd_acc, rd_seen, rd_updates, rd_result>>
stVars == <<gen, st_req, st_reply, st_lines, st_pos, st_chunk_id, st_model, st_acc,
            st_chunks, st_err, sse, transport, st_calls>>
avVars == <<av_provider, av_key, av_up, av_out, av_calls>>
cpVars == <<cp_op, cp_provider, cp_req, cp_reply, cp_out, cp_calls>>
vars == <<regVars, rdVars, stVars, cpVars, avVars>>

NoneVal == "None"

\* ---------------------------------------------------------------- bounds
\* longest model list a LiteLLM /models reply carries
MaxFetch == 2
\* most catalog replacements that overlap one read of the registry
MaxUpdates == 1
\* most lines an upstream event stream delivers
MaxLines == 3

\* ---------------------------------------------------------------- api.py
OPENAI == "openai"
DEEPSEEK == "deepseek"
LITELLM == "litellm"
OPENAI_COMPATIBLE == "openai_compatible"

AIProvider == {OPENAI, DEEPSEEK, LITELLM, OPENAI_COMPATIBLE}

AIModel(id, provider) == [id |-> id, provider |-> provider]

OPENAI_MODELS ==
    << AIModel("gpt-4o", OPENAI),
       AIModel("gpt-4-turbo", OPENAI),
       AIModel("gpt-3.5-turbo", OPENAI) >>

DEEPSEEK_MODELS ==
    << AIModel("deepseek-chat", DEEPSEEK),
       AIModel("deepseek-coder", DEEPSEEK) >>

\* ModelRegistry.__init__: self._openai_compatible_models; no code rebinds it
OPENAI_COMPATIBLE_MODELS ==
    << AIModel("llama3.3-70b-instruct", OPENAI_COMPATIBLE),
       AIModel("deepseek-v3", OPENAI_COMPATIBLE),
       AIModel("qwen-max", OPENAI_COMPATIBLE) >>

\* the list object currently bound to self._litellm_models
LitellmCatalog == heap[litellm_ref]

\* ModelRegistry._get_all_models applied to a litellm list
CombinedWith(litellm) ==
    OPENAI_MODELS \o DEEPSEEK_MODELS \o litellm \o OPENAI_COMPATIBLE_MODELS

\* ModelRegistry._get_all_models / get_all_models()
get_all_models == CombinedWith(LitellmCatalog)

\* references of list objects; the registry holds one, a reader may hold one
NoRef == "noref"
Refs == {"r0", "r1"}

\* a Python argument that is a list object or None
PyList(items) == [kind |-> "list", items |-> items]
PyNone == [kind |-> "None", items |-> <<>>]
NoArg == [kind |-> "nocall", items |-> <<>>]

\* The cell of the list object a rebinding creates. While a reader holds the
\* registry's list that list stays alive and the new one takes another cell;
\* otherwise the old list dies with the rebinding and its cell is reused.
FreshRef ==
    IF rd_ref = litellm_ref THEN CHOOSE r \in Refs : r # litellm_ref
    ELSE litellm_ref

\* The new models are added to the list the attribute is bound to.
update_litellm_models_extending(models) ==
    /\ litellm_ref' = litellm_ref
    /\ heap' = [heap EXCEPT ![litellm_ref] = @ \o models.items]

\* The attribute is rebound to a list object that is left alone, while the
\* list it was bound to is changed in place.
update_litellm_models_in_place(models) ==
    /\ litellm_ref' = litellm_ref
    /\ heap' = [heap EXCEPT ![litellm_ref] = models.items]

\* ModelRegistry.update_litellm_models: self._litellm_models = models if models else []
\* (models is a list object of the caller, or None). The attribute is rebound
\* to another list object; no list is changed. Objects nobody holds are dropped.
update_litellm_models(models) ==
    LET r == FreshRef
        new == IF models.kind = "list" /\ models.items # <<>> THEN models.items ELSE <<>>
    IN  /\ litellm_ref' = r
        /\ heap' = [x \in Refs |->
                      IF x = r THEN new
                      ELSE IF x = rd_ref THEN heap[x]
                      ELSE <<>>]

\* ------------------------------------------------------- ai_service.py
\* ALL_MODELS is bound in ai_service by `from src.types.api import ALL_MODELS`
\* when the module is loaded; no statement of the program assigns it
\* afterwards. api.py defines no such name: the only value the name can denote
\* is the combined list as it was at load time, when the registry had just
\* been constructed with an empty litellm list.
ALL_MODELS == CombinedWith(<<>>)

\* f"{provider}" of a member of the str-mixin enum AIProvider
Fmt(p) ==
    CASE p = OPENAI -> "AIProvider.OPENAI"
      [] p = DEEPSEEK -> "AIProvider.DEEPSEEK"
      [] p = LITELLM -> "AIProvider.LITELLM"
      [] p = OPENAI_COMPATIBLE -> "AIProvider.OPENAI_COMPATIBLE"
      [] OTHER -> "None"

NoModel == AIModel(NoneVal, NoneVal)

\* ApiError(status_code, message, code)
ApiError(status_code, message, code) ==
    [kind |-> "ApiError", model |-> NoModel, status_code |-> status_code,
     code |-> code, message |-> message]

Returned(m) ==
    [kind |-> "return", model |-> m, status_code |-> 0, code |-> NoneVal,
     message |-> <<>>]

\* next((m for m in models if m.id == id), None)
FirstMatch(models, id) ==
    IF \E i \in 1..Len(models) : models[i].id = id
    THEN models[CHOOSE i \in 1..Len(models) :
                  /\ models[i].id = id
                  /\ \A j \in 1..(i - 1) : models[j].id # id]
    ELSE NoModel

\* validation that takes the first model of the list when the id is unknown
validate_no_not_found(request) ==
    LET found == FirstMatch(ALL_MODELS, request.model)
        model_info == IF found = NoModel THEN ALL_MODELS[1] ELSE found
    IN  IF request.provider # NoneVal /\ request.provider # model_info.provider
        THEN ApiError(400,
                      <<"Model '", request.model, "' belongs to provider '",
                        Fmt(model_info.provider), "', not '",
                        Fmt(request.provider), "'">>,
                      "PROVIDER_MODEL_MISMATCH")
        ELSE Returned(model_info)

\* validation that does not compare the request's provider
validate_no_mismatch(request) ==
    LET model_info == FirstMatch(ALL_MODELS, request.model)
    IN  IF model_info = NoModel
        THEN ApiError(400, <<"Model '", request.model, "' not found">>,
                      "MODEL_NOT_FOUND")
        ELSE Returned(model_info)

\* AIService._validate_model_request
validate_model_request(request) ==
    LET model_info == FirstMatch(ALL_MODELS, request.model)
    IN  IF model_info = NoModel
        THEN ApiError(400, <<"Model '", request.model, "' not found">>,
                      "MODEL_NOT_FOUND")
        ELSE IF request.provider # NoneVal /\ request.provider # model_info.provider
        THEN ApiError(400,
                      <<"Model '", request.model, "' belongs to provider '",
                        Fmt(model_info.provider), "', not '",
                        Fmt(request.provider), "'">>,
                      "PROVIDER_MODEL_MISMATCH")
        ELSE Returned(model_info)

\* ------------------------------------------------- litellm_service.py
\* An upstream reply to GET {base_url}/models:
\*   kind   "conn_error" (no response: connection failure, timeout),
\*          "http_error" (raise_for_status raises), "not_json" (response.json()
\*          raises requests' JSONDecodeError), "json"
\*   shape  of the JSON value: "object", "empty_object" ({}), "array" (a
\*          non-empty array), "null"
\*   data   the object's "data" member: absent, null, or a list of entries
\* An entry of the list is an object with an "id" ("ok") or without ("noid").
NoData == [kind |-> "absent", items |-> <<>>]
NoReply == [kind |-> "none", shape |-> "none", data |-> NoData]
FailReply(kind) == [kind |-> kind, shape |-> "none", data |-> NoData]
JsonReply(shape, data) == [kind |-> "json", shape |-> shape, data |-> data]
DataList(items) == [kind |-> "list", items |-> items]
OkEntry(id) == [kind |-> "ok", id |-> id]
NoIdEntry == [kind |-> "noid", id |-> NoneVal]

\* requests.exceptions.RequestException raised by the call
RequestFailed(reply) == reply.kind \in {"conn_error", "http_error", "not_json"}

Return(models) == [kind |-> "return", exc |-> NoneVal, models |-> PyList(models)]
Raise(exc) == [kind |-> "raise", exc |-> exc, models |-> PyNone]

\* [AIModel(id=model["id"], provider=LITELLM, ...) for model in models]
RECURSIVE BuildModels(_)
BuildModels(entries) ==
    IF entries = <<>> THEN Return(<<>>)
    ELSE IF Head(entries).kind # "ok" THEN Raise("KeyError")
    ELSE LET rest == BuildModels(Tail(entries))
         IN  IF rest.kind = "raise" THEN rest
             ELSE Return(<<AIModel(Head(entries).id, LITELLM)>> \o rest.models.items)

\* get_models that lets a failed request escape as an exception
get_models_reraise(key_configured, reply) ==
    IF ~key_configured THEN Return(<<>>)
    ELSE IF RequestFailed(reply) THEN Raise("ApiError")
    ELSE IF reply.shape \in {"array", "null"} THEN Raise("AttributeError")
    ELSE IF reply.data.kind = "absent" THEN Return(<<>>)
    ELSE IF reply.data.kind = "null" THEN Raise("TypeError")
    ELSE BuildModels(reply.data.items)

\* LiteLLMService.get_models
get_models(key_configured, reply) ==
    IF ~key_configured THEN Return(<<>>)
    ELSE IF RequestFailed(reply) THEN Return(<<>>)
    ELSE IF reply.shape \in {"array", "null"} THEN Raise("AttributeError")
    ELSE IF reply.data.kind = "absent" THEN Return(<<>>)
    ELSE IF reply.data.kind = "null" THEN Raise("TypeError")
    ELSE BuildModels(reply.data.items)

\* value of a probe: the Python value returned ("True", "False", "None", "{}")
\* or the exception raised
ProbeReturn(value) == [kind |-> "return", exc |-> NoneVal, value |-> value]
ProbeRaise(exc) == [kind |-> "raise", exc |-> exc, value |-> NoneVal]
Truthy(value) == value = "True"

\* LiteLLMService.check_availability
litellm_check_availability(key_configured, reply) ==
    IF ~key_configured THEN ProbeReturn("False")
    ELSE IF RequestFailed(reply) THEN ProbeReturn("False")
    ELSE IF reply.shape = "null" THEN ProbeReturn("None")
    ELSE IF reply.shape = "empty_object" THEN ProbeReturn("{}")
    ELSE IF reply.shape = "array" THEN ProbeRaise("AttributeError")
    ELSE IF reply.data.kind = "list" THEN ProbeReturn("True")
    ELSE ProbeReturn("False")

\* ------------------------------------ the other adapters' availability
\* outcome of GET {base_url}/models: "ok200", "ok2xx" (a 2xx status other than
\* 200), "status_err" (4xx, 5xx), "conn_error" (no response)
\* OpenAIService.check_availability
openai_check_availability(key_configured, out) ==
    IF ~key_configured THEN ProbeReturn("False")
    ELSE IF out = "ok200" THEN ProbeReturn("True")
    ELSE ProbeReturn("False")

\* DeepSeekService.check_availability
deepseek_check_availability(key_configured, out) ==
    IF ~key_configured THEN ProbeReturn("False")
    ELSE IF out \in {"ok200", "ok2xx"} THEN ProbeReturn("True")
    ELSE ProbeReturn("False")

\* OpenAICompatibleService.check_availability: after the /models call and the
\* five chat probes it returns True whenever a key is configured
openai_compatible_check_availability(key_configured, out) ==
    IF ~key_configured THEN ProbeReturn("False")
    ELSE ProbeReturn("True")

\* --------------------------------------------- completion adapters
\* An upstream reply to POST {base_url}/chat/completions:
\*   kind    "conn_error" (no response), "http_error" (raise_for_status
\*           raises HTTPError with the response), "not_json" (a 2xx reply whose
\*           body response.json() cannot decode), "ok" (a 2xx JSON object)
\*   status  the HTTP status of an "http_error" reply
\*   err     the body of an error reply: "message" ({"error": {"message": ..}}),
\*           "nomessage" (a JSON object without error), "error_str" (a JSON
\*           object whose error member is a string), "not_json"
\*   id, model  members of an "ok" body, "None" when absent
\*   choices "absent", "empty" ([]) or "one"; content is the first choice's
\*           message content;  usage is "absent" or "present"
NoBody == [id |-> NoneVal, model |-> NoneVal, choices |-> "absent",
           content |-> <<>>, usage |-> "absent"]
OkReply(body) == [kind |-> "ok", status |-> 200, err |-> NoneVal, body |-> body]
ErrReply(status, err) ==
    [kind |-> "http_error", status |-> status, err |-> err, body |-> NoBody]
ConnError == [kind |-> "conn_error", status |-> 0, err |-> NoneVal, body |-> NoBody]
NotJson == [kind |-> "not_json", status |-> 200, err |-> NoneVal, body |-> NoBody]
NoCompletionReply == [kind |-> "none", status |-> 0, err |-> NoneVal, body |-> NoBody]

\* UsageInfo
UsageInfo(p, c, t) == [prompt_tokens |-> p, completion_tokens |-> c, total_tokens |-> t]
UpstreamUsage == UsageInfo(5, 3, 8)
NoUsage == UsageInfo(0, 0, 0)

\* CompletionResponse (created_at, a clock reading, is left out)
CompletionResponse(id, model, provider, content, usage) ==
    [id |-> id, model |-> model, provider |-> provider, content |-> content,
     usage |-> usage]
NoResponse == CompletionResponse(NoneVal, NoneVal, NoneVal, <<>>, NoUsage)

\* outcome of a call: a returned response, an ApiError, or another exception
Completed(resp) ==
    [kind |-> "return", exc |-> NoneVal, status_code |-> 0, code |-> NoneVal,
     resp |-> resp]
Failed(status_code, code) ==
    [kind |-> "raise", exc |-> "ApiError", status_code |-> status_code,
     code |-> code, resp |-> NoResponse]
Escaped(exc) ==
    [kind |-> "raise", exc |-> exc, status_code |-> 0, code |-> NoneVal,
     resp |-> NoResponse]

\* the error table shared by DeepSeekService._handle_api_error, the except
\* clause of LiteLLMService.generate_completion and
\* OpenAICompatibleService._handle_api_error (tag is the provider tag).
\* hasattr(e, 'response') holds for every RequestException, so an exception
\* without a response reaches e.response.status_code with e.response = None.
handle_api_error(tag, reply) ==
    IF reply.kind \in {"conn_error", "not_json"} THEN Escaped("AttributeError")
    ELSE IF reply.err = "error_str" THEN Escaped("AttributeError")
    ELSE IF reply.status = 401 THEN Failed(401, <<tag, "UNAUTHORIZED">>)
    ELSE IF reply.status = 429 THEN Failed(429, <<tag, "RATE_LIMIT">>)
    ELSE IF reply.status = 400 THEN Failed(400, <<tag, "BAD_REQUEST">>)
    ELSE Failed(reply.status, <<tag, "API_ERROR">>)

\* OpenAIService._handle_http_error (e is an HTTPError carrying the response)
openai_handle_http_error(reply) ==
    IF reply.status = 401 THEN Failed(401, <<"OPENAI", "UNAUTHORIZED">>)
    ELSE IF reply.status = 429 THEN Failed(429, <<"OPENAI", "RATE_LIMIT">>)
    ELSE IF reply.status = 400
    THEN IF reply.err = "not_json" THEN Escaped("JSONDecodeError")
         ELSE IF reply.err = "error_str" THEN Escaped("AttributeError")
         ELSE Failed(400, <<"OPENAI", "BAD_REQUEST">>)
    ELSE Failed(reply.status, <<"OPENAI", "API_ERROR">>)

\* data["usage"][...] if "usage" in data else 0  /  data.get("usage", {})
UsageOf(body) == IF body.usage = "present" THEN UpstreamUsage ELSE NoUsage

\* the parsing of a 2xx reply in DeepSeekService.generate_completion and
\* LiteLLMService.generate_completion: data["choices"], data["id"] and
\* data["model"] are subscripted
parse_strict(provider, body) ==
    IF body.choices = "absent" THEN Escaped("KeyError")
    ELSE IF body.id = NoneVal \/ body.model = NoneVal THEN Escaped("KeyError")
    ELSE Completed(CompletionResponse(
             body.id, body.model, provider,
             IF body.choices = "one" THEN body.content ELSE <<>>,
             UsageOf(body)))

\* DeepSeekService.generate_completion
deepseek_generate_completion(request, reply) ==
    IF reply.kind = "ok" THEN parse_strict(DEEPSEEK, reply.body)
    ELSE handle_api_error("DEEPSEEK", reply)

\* LiteLLMService.generate_completion
litellm_generate_completion(request, reply) ==
    IF reply.kind = "ok" THEN parse_strict(LITELLM, reply.body)
    ELSE handle_api_error("LITELLM", reply)

\* the parsing of a 2xx reply in OpenAIService.generate_completion and
\* OpenAICompatibleService.generate_completion: id and model have defaults
\* (synth is the synthesized id)
parse_lenient(provider, synth, request, body) ==
    Completed(CompletionResponse(
        IF body.id = NoneVal THEN synth ELSE body.id,
        IF body.model = NoneVal THEN request.model ELSE body.model,
        provider,
        IF body.choices = "one" THEN body.content ELSE <<>>,
        UsageOf(body)))

\* OpenAIService.generate_completion
openai_generate_completion(request, reply) ==
    IF reply.kind = "ok" THEN parse_lenient(OPENAI, "openai-<now>", request, reply.body)
    ELSE IF reply.kind = "http_error" THEN openai_handle_http_error(reply)
    ELSE Failed(500, <<"OPENAI", "CONNECTION_ERROR">>)

\* OpenAICompatibleService.generate_completion
openai_compatible_generate_completion(request, reply) ==
    IF reply.kind = "ok"
    THEN parse_lenient(OPENAI_COMPATIBLE, "compat-<now>", request, reply.body)
    ELSE handle_api_error("OPENAI_COMPATIBLE", reply)

\* the dispatch table of AIService.generate_completion
complete_by(provider, request, reply) ==
    CASE provider = OPENAI -> openai_generate_completion(request, reply)
      [] provider = DEEPSEEK -> deepseek_generate_completion(request, reply)
      [] provider = LITELLM -> litellm_generate_completion(request, reply)
      [] provider = OPENAI_COMPATIBLE ->
            openai_compatible_generate_completion(request, reply)

\* try: ... except KeyError: raise ApiError(500, ..., "UNSUPPORTED_PROVIDER")
unsupported_on_key_error(out) ==
    IF out.kind = "raise" /\ out.exc = "KeyError"
    THEN Failed(500, <<"UNSUPPORTED_PROVIDER">>)
    ELSE out

\* the error raised by _validate_model_request, as an outcome of the call
ValidationFailed(v) == Failed(v.status_code, <<v.code>>)

\* one invocation of a method of the adapter of a provider
Call(provider, method) == [adapter |-> provider, method |-> method]

\* every request is sent to the OpenAI adapter, validated or not
completion_calls_openai(request) == {Call(OPENAI, "generate_completion")}

\* AIService.generate_completion, the adapter methods it invokes: none when
\* _validate_model_request raises, else the table entry of the provider of the
\* model it returned
completion_calls(request) ==
    LET v == validate_model_request(request)
    IN  IF v.kind = "ApiError" THEN {}
        ELSE {Call(v.model.provider, "generate_completion")}

\* AIService.generate_completion
generate_completion(request, reply) ==
    LET v == validate_model_request(request)
    IN  IF v.kind = "ApiError" THEN ValidationFailed(v)
        ELSE unsupported_on_key_error(complete_by(v.model.provider, request, reply))

\* ---------------------------------------------- stream normalizer
\* A line that response.iter_lines() delivers, or its failure:
\*   kind  "blank" (empty line), "done" ([DONE]), "bad" (json.loads raises
\*         JSONDecodeError), "undecodable" (bytes that are not UTF-8 text:
\*         json.loads raises UnicodeDecodeError, a ValueError that is no
\*         JSONDecodeError), "nonobj" (JSON that is no object, e.g. a number),
\*         "json" (a JSON object), "transport_error" (iter_lines raises a
\*         RequestException: the connection broke)
\*   id, model  members of the object, "None" when absent
\*   choices    "absent", "empty" ([]) or "one"
\*   content    choices[0].delta.content, <<>> when absent or ""
\*   finish     choices[0].finish_reason: "None" (absent or null), "" or a reason
Line(kind) == [kind |-> kind, id |-> NoneVal, model |-> NoneVal,
               choices |-> "absent", content |-> <<>>, finish |-> NoneVal]
Frame(id, model, content, finish) ==
    [kind |-> "json", id |-> id, model |-> model, choices |-> "one",
     content |-> content, finish |-> finish]

\* StreamChunk (created_at, a clock reading, is left out)
StreamChunk(id, model, provider, content, finish_reason, is_last_chunk) ==
    [id |-> id, model |-> model, provider |-> provider, content |-> content,
     finish_reason |-> finish_reason, is_last_chunk |-> is_last_chunk]
NoChunk == StreamChunk(NoneVal, NoneVal, NoneVal, <<>>, NoneVal, FALSE)

\* `if finish_reason:` -- None and "" are both false
FinishTruthy(finish) == finish # NoneVal /\ finish # ""

\* what one resumption of an adapter's generator does
Yield(chunk, pos, susp, id, model, acc) ==
    [outcome |-> "yield", chunk |-> chunk, pos |-> pos, susp |-> susp,
     id |-> id, model |-> model, acc |-> acc, err |-> Escaped(NoneVal)]
End(pos, id, model, acc) ==
    [outcome |-> "end", chunk |-> NoChunk, pos |-> pos, susp |-> "ended",
     id |-> id, model |-> model, acc |-> acc, err |-> Escaped(NoneVal)]
Throw(err, pos, id, model, acc) ==
    [outcome |-> "raise", chunk |-> NoChunk, pos |-> pos, susp |-> "raised",
     id |-> id, model |-> model, acc |-> acc, err |-> err]

\* the except clauses around the loop of each adapter's generate_stream:
\* exc is "RequestException" (the transport failed) or another exception
stream_except(provider, exc) ==
    IF provider = OPENAI
    THEN IF exc = "RequestException"
         THEN Failed(500, <<"OPENAI", "CONNECTION_ERROR">>)
         ELSE Failed(500, <<"OPENAI", "UNEXPECTED_ERROR">>)
    ELSE IF exc = "RequestException"
         THEN handle_api_error("OPENAI_COMPATIBLE", ConnError)
         ELSE Escaped(exc)

\* a finish chunk that always reports "stop"
finish_chunk_stop(provider, id, model, finish) ==
    StreamChunk(id, model, provider, <<>>, "stop", TRUE)

\* a content chunk that already reports a finish_reason
content_chunk_finished(provider, id, model, content_delta) ==
    StreamChunk(id, model, provider, content_delta, "stop", FALSE)

\* the chunk yielded for a content delta
content_chunk(provider, id, model, content_delta) ==
    StreamChunk(id, model, provider, content_delta, NoneVal, FALSE)

\* the chunk yielded for a finish_reason
finish_chunk(provider, id, model, finish) ==
    StreamChunk(id, model, provider, <<>>, finish, TRUE)

\* a [DONE] chunk that carries no content
done_chunk_empty(provider, id, model, accumulated_content) ==
    StreamChunk(id, model, provider, <<>>, "stop", TRUE)

\* the chunk yielded for the [DONE] line
done_chunk(provider, id, model, accumulated_content) ==
    StreamChunk(id, model, provider, accumulated_content, "stop", TRUE)

\* One resumption of OpenAIService.generate_stream /
\* OpenAICompatibleService.generate_stream inside `for line in
\* response.iter_lines()`: it runs until the next yield, the end of the lines
\* or an exception. pos lines have been read; after_content says that the
\* generator is suspended at the yield of the content chunk of line pos, so
\* that line's finish_reason is still to be looked at.
RECURSIVE resume(_, _, _, _, _, _, _)
resume(provider, lines, pos, after_content, id, model, acc) ==
    IF after_content
    THEN IF FinishTruthy(lines[pos].finish)
         THEN Yield(finish_chunk(provider, id, model, lines[pos].finish),
                    pos, "terminal", id, model, acc)
         ELSE resume(provider, lines, pos, FALSE, id, model, acc)
    ELSE IF pos >= Len(lines) THEN End(pos, id, model, acc)
    ELSE LET n == pos + 1
             f == lines[n]
             id2 == IF f.kind = "json" /\ f.id # NoneVal THEN f.id ELSE id
             model2 == IF f.kind = "json" /\ f.model # NoneVal THEN f.model ELSE model
         IN  CASE f.kind = "blank" ->
                    resume(provider, lines, n, FALSE, id, model, acc)
               [] f.kind = "done" ->
                    Yield(done_chunk(provider, id, model, acc),
                          n, "terminal", id, model, acc)
               [] f.kind = "transport_error" ->
                    Throw(stream_except(provider, "RequestException"), n, id, model, acc)
               [] f.kind = "bad" ->
                    resume(provider, lines, n, FALSE, id, model, acc)
               [] f.kind = "undecodable" ->
                    Throw(stream_except(provider, "UnicodeDecodeError"), n, id, model, acc)
               [] f.kind = "nonobj" ->
                    Throw(stream_except(provider, "TypeError"), n, id, model, acc)
               [] f.kind = "json" /\ f.choices = "empty" ->
                    Throw(stream_except(provider, "IndexError"), n, id2, model2, acc)
               [] f.kind = "json" /\ f.choices = "absent" ->
                    resume(provider, lines, n, FALSE, id2, model2, acc)
               [] f.kind = "json" /\ f.choices = "one" ->
                    IF f.content # <<>>
                    THEN Yield(content_chunk(provider, id2, model2, f.content),
                               n, "content", id2, model2, acc \o f.content)
                    ELSE resume(provider, lines, n, TRUE, id2, model2, acc)

\* -------------------------------------------------- history records
\* upstream outcomes of the openai, deepseek and openai_compatible probes
ProbeOuts(a, b, c) == [openai |-> a, deepseek |-> b, openai_compatible |-> c]
NoOuts == ProbeOuts("none", "none", "none")
NoReq == [model |-> NoneVal, provider |-> NoneVal]
NoRes == [kind |-> "none", model |-> NoModel, status_code |-> 0, code |-> NoneVal,
          message |-> <<>>]
NoRet == [kind |-> "none", exc |-> NoneVal,
          providers |-> [p \in AIProvider |-> NoneVal]]

\* ------------------------------------------------------- operations
\* AIService._validate_model_request(request), as generate_completion and
\* generate_stream call it first
Validate(request) ==
    /\ op' = "validate"
    /\ vreq' = request
    /\ vres' = validate_model_request(request)
    /\ prior' = LitellmCatalog
    /\ probe' = NoReply
    /\ others' = NoOuts
    /\ arg' = NoArg
    /\ fetch' = NoReply
    /\ ret' = NoRet
    /\ UNCHANGED <<heap, litellm_ref, cfg, rdVars, stVars, cpVars, avVars>>

\* handlers that do not catch KeyError
CaughtWithoutKeyError ==
    {"ConnectionError", "TimeoutError", "ValueError", "TypeError",
     "AttributeError", "ImportError", "ModuleNotFoundError"}

\* exceptions the handlers of get_available_providers catch around the refresh
CaughtByAvailability ==
    {"ConnectionError", "TimeoutError", "ValueError", "TypeError", "KeyError",
     "AttributeError", "ImportError", "ModuleNotFoundError"}

\* exceptions the handlers of init_litellm_models catch (each then empties)
CaughtByInit ==
    {"ConnectionError", "TimeoutError", "ValueError", "TypeError", "KeyError",
     "AttributeError", "ImportError"}

\* the refresh of get_available_providers with handlers that empty the catalog
availability_refresh_emptying(res) ==
    IF res.kind = "return" THEN update_litellm_models(res.models)
    ELSE IF res.exc \in CaughtByAvailability THEN update_litellm_models(PyList(<<>>))
    ELSE UNCHANGED <<heap, litellm_ref>>

\* get_available_providers, the try statement after `if litellm_available:`
\* (res is the outcome of LiteLLMService.get_models)
availability_refresh(res) ==
    IF res.kind = "return" THEN update_litellm_models(res.models)
    ELSE UNCHANGED <<heap, litellm_ref>>

\* AIService.get_available_providers: outs are the upstream outcomes of the
\* openai, deepseek and openai_compatible probes, probeReply and fetchReply the
\* upstream replies to the litellm probe and to the litellm model fetch
GetAvailableProviders(outs, probeReply, fetchReply) ==
    LET oa == openai_check_availability(cfg[OPENAI], outs.openai)
        ds == deepseek_check_availability(cfg[DEEPSEEK], outs.deepseek)
        lt == litellm_check_availability(cfg[LITELLM], probeReply)
        oc == openai_compatible_check_availability(cfg[OPENAI_COMPATIBLE],
                                                   outs.openai_compatible)
        refresh == lt.kind = "return" /\ Truthy(lt.value)
        res == get_models(cfg[LITELLM], fetchReply)
    IN  /\ (fetchReply # NoReply) <=> refresh
        /\ op' = "get_available_providers"
        /\ prior' = LitellmCatalog
        /\ probe' = probeReply
        /\ others' = outs
        /\ arg' = IF refresh /\ res.kind = "return" THEN res.models ELSE NoArg
        /\ fetch' = fetchReply
        /\ vreq' = NoReq
        /\ vres' = NoRes
        /\ IF refresh
           THEN availability_refresh(res)
           ELSE UNCHANGED <<heap, litellm_ref>>
        /\ ret' = IF lt.kind = "raise"
                  THEN [NoRet EXCEPT !.kind = "raise", !.exc = lt.exc]
                  ELSE IF refresh /\ res.kind = "raise"
                          /\ res.exc \notin CaughtByAvailability
                  THEN [NoRet EXCEPT !.kind = "raise", !.exc = res.exc]
                  ELSE [kind |-> "return", exc |-> NoneVal,
                        providers |-> [p \in AIProvider |->
                            CASE p = OPENAI -> oa.value
                              [] p = DEEPSEEK -> ds.value
                              [] p = LITELLM -> lt.value
                              [] p = OPENAI_COMPATIBLE -> oc.value]]
        /\ UNCHANGED <<cfg, rdVars, stVars, cpVars, avVars>>

\* index.init_litellm_models: fetchReply is the upstream reply to the fetch it
\* makes when a litellm key is configured
InitLitellmModels(fetchReply) ==
    LET res == get_models(cfg[LITELLM], fetchReply)
    IN  /\ (fetchReply # NoReply) <=> cfg[LITELLM]
        /\ op' = "init_litellm_models"
        /\ prior' = LitellmCatalog
        /\ probe' = NoReply
        /\ others' = NoOuts
        /\ arg' = IF ~cfg[LITELLM] THEN NoArg
                  ELSE IF res.kind = "return" THEN res.models
                  ELSE IF res.exc \in CaughtByInit THEN PyList(<<>>)
                  ELSE NoArg
        /\ fetch' = fetchReply
        /\ vreq' = NoReq
        /\ vres' = NoRes
        /\ IF ~cfg[LITELLM] THEN UNCHANGED <<heap, litellm_ref>>
           ELSE IF res.kind = "return" THEN update_litellm_models(res.models)
           ELSE IF res.exc \in CaughtByInit THEN update_litellm_models(PyList(<<>>))
           ELSE UNCHANGED <<heap, litellm_ref>>
        /\ ret' = IF cfg[LITELLM] /\ res.kind = "raise" /\ res.exc \notin CaughtByInit
                  THEN [NoRet EXCEPT !.kind = "raise", !.exc = res.exc]
                  ELSE [NoRet EXCEPT !.kind = "return"]
        /\ UNCHANGED <<cfg, rdVars, stVars, cpVars, avVars>>

\* ------------------------------------------------------ input sets
FetchIds == {"gpt-4o", "deepseek-v3", "claude-3"}
Entries == {OkEntry(i) : i \in FetchIds} \cup {NoIdEntry}
EntryLists == UNION {[1..n -> Entries] : n \in 0..MaxFetch}
NullData == [kind |-> "null", items |-> <<>>]

FetchReplies ==
    {FailReply(k) : k \in {"conn_error", "http_error", "not_json"}}
    \cup {JsonReply("object", DataList(l)) : l \in EntryLists}
    \cup {JsonReply("object", NoData), JsonReply("object", NullData),
          JsonReply("empty_object", NoData), JsonReply("array", NoData),
          JsonReply("null", NoData)}

ProbeReplies ==
    {FailReply(k) : k \in {"conn_error", "http_error", "not_json"}}
    \cup {JsonReply("object", DataList(<<>>)), JsonReply("object", NoData),
          JsonReply("empty_object", NoData), JsonReply("array", NoData),
          JsonReply("null", NoData)}

OtherProbes ==
    {ProbeOuts("ok200", "ok2xx", "ok200"),
     ProbeOuts("conn_error", "status_err", "conn_error")}

ListIds(models) == {models[i].id : i \in 1..Len(models)}
RequestIds == ListIds(ALL_MODELS) \cup FetchIds \cup {"not-a-real-model"}
Requests == [model : RequestIds, provider : AIProvider \cup {NoneVal}]

Configs == {[p \in AIProvider |-> IF p = LITELLM THEN k ELSE TRUE] : k \in BOOLEAN}

\* ------------------------------------------- registry specification
StIdle ==
    /\ gen = "none"
    /\ st_req = NoReq
    /\ st_reply = NoCompletionReply
    /\ st_lines = <<>>
    /\ st_pos = 0
    /\ st_chunk_id = NoneVal
    /\ st_model = NoneVal
    /\ st_acc = <<>>
    /\ st_chunks = <<>>
    /\ st_err = Escaped(NoneVal)
    /\ sse = <<>>
    /\ transport = "none"
    /\ st_calls = {}

\* What the upstream answers to the probes of one check_availability call:
\*   out    outcome of GET /models for openai, deepseek, openai_compatible
\*   reply  reply to GET /models for litellm
\*   chat   openai_compatible: index in COMMON_MODELS of the first chat probe
\*          answered with 200, 0 when none is
Upstream(out, reply, chat) == [out |-> out, reply |-> reply, chat |-> chat]

AvIdle ==
    /\ av_provider = NoneVal
    /\ av_key = ""
    /\ av_up = Upstream("conn_error", NoReply, 0)
    /\ av_out = ProbeRaise(NoneVal)
    /\ av_calls = 0

CpIdle ==
    /\ cp_op = "none"
    /\ cp_provider = NoneVal
    /\ cp_req = NoReq
    /\ cp_reply = NoCompletionReply
    /\ cp_out = Escaped(NoneVal)
    /\ cp_calls = {}

RdIdle ==
    /\ rd_pc = "idle"
    /\ rd_ref = NoRef
    /\ rd_acc = <<>>
    /\ rd_seen = {}
    /\ rd_updates = 0
    /\ rd_result = <<>>

Init ==
    /\ heap = [r \in Refs |-> <<>>]
    /\ litellm_ref = "r0"
    /\ cfg \in Configs
    /\ op = "construct"
    /\ prior = <<>>
    /\ vreq = NoReq
    /\ vres = NoRes
    /\ probe = NoReply
    /\ others = NoOuts
    /\ arg = NoArg
    /\ fetch = NoReply
    /\ ret = NoRet
    /\ RdIdle
    /\ StIdle
    /\ CpIdle
    /\ AvIdle

Next ==
    \/ \E request \in Requests : Validate(request)
    \/ \E outs \in OtherProbes, pr \in ProbeReplies,
          fr \in FetchReplies \cup {NoReply} : GetAvailableProviders(outs, pr, fr)
    \/ \E fr \in FetchReplies \cup {NoReply} : InitLitellmModels(fr)

Spec == Init /\ [][Next]_vars

\* ---------------------------------- a reader concurrent with a refresh
\* A request thread evaluating _get_all_models (or iterating the list that
\* the litellm_models property returns) while another thread runs
\* update_litellm_models. The reader loads the attribute once and then reads
\* the elements of the list object it got.
ReaderLoad ==
    /\ rd_pc = "idle"
    /\ rd_pc' = "copying"
    /\ rd_ref' = litellm_ref
    /\ rd_acc' = <<>>
    /\ rd_seen' = {LitellmCatalog}
    /\ rd_updates' = 0
    /\ UNCHANGED <<rd_result, regVars, stVars, cpVars, avVars>>

ReaderCopy ==
    /\ rd_pc = "copying"
    /\ Len(rd_acc) < Len(heap[rd_ref])
    /\ rd_acc' = Append(rd_acc, heap[rd_ref][Len(rd_acc) + 1])
    /\ UNCHANGED <<rd_pc, rd_ref, rd_seen, rd_updates, rd_result, regVars, stVars, cpVars, avVars>>

\* the copy is complete: the combined list is built and the list is released
ReaderFinish ==
    /\ rd_pc = "copying"
    /\ Len(rd_acc) >= Len(heap[rd_ref])
    /\ rd_pc' = "done"
    /\ rd_result' = CombinedWith(rd_acc)
    /\ rd_ref' = NoRef
    /\ heap' = [x \in Refs |-> IF x = litellm_ref THEN heap[x] ELSE <<>>]
    /\ UNCHANGED <<rd_acc, rd_seen, rd_updates, litellm_ref, cfg, op, prior, vreq,
                   vres, probe, others, fetch, ret, arg, stVars, cpVars, avVars>>

ReaderReset ==
    /\ rd_pc = "done"
    /\ rd_pc' = "idle"
    /\ rd_acc' = <<>>
    /\ rd_seen' = {}
    /\ rd_updates' = 0
    /\ rd_result' = <<>>
    /\ UNCHANGED <<rd_ref, regVars, stVars, cpVars, avVars>>

\* update_litellm_models(models) run by a refresh in another thread (models is
\* a list or None)
ConcurrentUpdate(models) ==
    /\ rd_pc = "copying" => rd_updates < MaxUpdates
    /\ update_litellm_models(models)
    /\ arg' = models
    /\ op' = "update_litellm_models"
    /\ prior' = LitellmCatalog
    /\ rd_seen' = IF rd_pc = "copying" THEN rd_seen \cup {heap'[litellm_ref']}
                  ELSE rd_seen
    /\ rd_updates' = IF rd_pc = "copying" THEN rd_updates + 1 ELSE rd_updates
    /\ UNCHANGED <<cfg, vreq, vres, probe, others, fetch, ret, rd_pc, rd_ref, rd_acc,
                   rd_result, stVars, cpVars, avVars>>

ReaderIds == {"deepseek-v3", "claude-3"}
ModelLists == UNION {[1..n -> {AIModel(i, LITELLM) : i \in ReaderIds}] : n \in 0..MaxFetch}

NextReader ==
    \/ ReaderLoad
    \/ ReaderCopy
    \/ ReaderFinish
    \/ ReaderReset
    \/ \E models \in {PyList(l) : l \in ModelLists} \cup {PyNone} :
          ConcurrentUpdate(models)

SpecReader == Init /\ [][NextReader]_vars

\* --------------------------------------------- streaming dispatch
NativeStreaming == {OPENAI, OPENAI_COMPATIBLE}

\* f"chatcmpl-{datetime.now().timestamp()}" / f"compat-{...}"
SynthesizedId(provider) == IF provider = OPENAI THEN "chatcmpl-<now>" ELSE "compat-<now>"

\* what the adapter's generate_stream raises when the POST fails or
\* raise_for_status raises
stream_open_error(provider, reply) ==
    IF provider = OPENAI
    THEN IF reply.kind = "http_error" THEN openai_handle_http_error(reply)
         ELSE Failed(500, <<"OPENAI", "CONNECTION_ERROR">>)
    ELSE handle_api_error("OPENAI_COMPATIBLE", reply)

\* a fallback chunk that is not marked as the last one
fallback_chunk_not_last(response) ==
    StreamChunk(response.id, response.model, response.provider, response.content,
                "stop", FALSE)

\* AIService.generate_stream, the StreamChunk built from the response of the
\* non-streaming completion
fallback_chunk(response) ==
    StreamChunk(response.id, response.model, response.provider, response.content,
                "stop", TRUE)

\* the non-streaming table of AIService.generate_stream: a provider outside it
\* raises KeyError
fallback_complete(provider, request, reply) ==
    CASE provider = DEEPSEEK -> deepseek_generate_completion(request, reply)
      [] provider = LITELLM -> litellm_generate_completion(request, reply)
      [] OTHER -> Escaped("KeyError")

\* every stream is opened on the OpenAI adapter, validated or not
stream_calls_openai(request) == {Call(OPENAI, "generate_stream")}

\* AIService.generate_stream, the adapter methods it invokes once it runs: none
\* when _validate_model_request raises; generate_stream of the OpenAI or the
\* compatible adapter; else the table entry of the provider
stream_calls(request) ==
    LET v == validate_model_request(request)
    IN  IF v.kind = "ApiError" THEN {}
        ELSE IF v.model.provider \in NativeStreaming
        THEN {Call(v.model.provider, "generate_stream")}
        ELSE IF v.model.provider \in {DEEPSEEK, LITELLM}
        THEN {Call(v.model.provider, "generate_completion")}
        ELSE {}

\* stream_completion.generate: async_gen = AIService.generate_stream(validated_data).
\* The generator object is created; none of its code has run. reply and lines
\* are what the upstream will answer if the stream calls it.
CreateStream(request, reply, lines) ==
    /\ gen = "none"
    /\ gen' = "created"
    /\ st_req' = request
    /\ st_reply' = reply
    /\ st_lines' = lines
    /\ UNCHANGED <<st_pos, st_chunk_id, st_model, st_acc, st_chunks, st_err, sse,
                   transport, st_calls, regVars, rdVars, cpVars, avVars>>

\* SSE frames of stream_completion.generate
SseData(chunk) == [kind |-> "data", chunk |-> chunk, code |-> NoneVal]
SseError(code) == [kind |-> "error", chunk |-> NoChunk, code |-> code]
SseDone == [kind |-> "done", chunk |-> NoChunk, code |-> NoneVal]

\* the except clauses of stream_completion.generate around __anext__(): the
\* code of the error frame for an exception they catch, "None" for one they
\* do not catch (ApiError and IndexError are subclasses of none of the listed
\* classes; UnicodeDecodeError is a ValueError; the JSONDecodeError of requests
\* is a json.JSONDecodeError)
front_door_except(exc) ==
    CASE exc \in {"ConnectionError", "TimeoutError"} -> "SERVICE_UNAVAILABLE"
      [] exc = "JSONDecodeError" -> "ENCODING_ERROR"
      [] exc \in {"KeyError", "TypeError"} -> "INVALID_RESPONSE"
      [] exc \in {"ValueError", "UnicodeDecodeError"} -> "INVALID_DATA"
      [] exc \in {"AttributeError", "RuntimeError", "AssertionError"} -> "SERVER_ERROR"
      [] OTHER -> NoneVal

\* what one iteration of the loop of stream_completion.generate adds to the
\* SSE output for the outcome r of __anext__(): the chunk as a data frame;
\* after StopAsyncIteration the [DONE] frame; after an exception it catches an
\* error frame and the [DONE] frame; an exception it does not catch leaves
\* generate() and nothing more is written
front_door(frames, r) ==
    CASE r.outcome = "yield" -> Append(frames, SseData(r.chunk))
      [] r.outcome = "end" -> Append(frames, SseDone)
      [] r.outcome = "raise" ->
            LET e == unsupported_on_key_error(r.err)
            IN  IF front_door_except(e.exc) # NoneVal
                THEN frames \o <<SseError(front_door_except(e.exc)), SseDone>>
                ELSE frames

\* the effect of one resumption r of the adapter's generator, relayed by
\* `async for chunk in ...: yield chunk`, and of the loop iteration of
\* stream_completion.generate that pulled it
Relay(r) ==
    /\ sse' = front_door(sse, r)
    /\ gen' = r.susp
    /\ st_pos' = r.pos
    /\ st_chunk_id' = r.id
    /\ st_model' = r.model
    /\ st_acc' = r.acc
    /\ st_chunks' = IF r.outcome = "yield" THEN Append(st_chunks, r.chunk) ELSE st_chunks
    /\ st_err' = IF r.outcome = "raise" THEN unsupported_on_key_error(r.err) ELSE st_err

\* The streamed response after a resumption r of the adapter's generator. The
\* adapters never close it: the connection is given back when the body has been
\* read to its end or when the read fails; after a `break`, or while the
\* generator is suspended, it stays open.
transport_after(t, r, lines) ==
    IF r.outcome = "end" THEN "released"
    ELSE IF r.outcome = "raise" /\ r.pos >= 1 /\ lines[r.pos].kind = "transport_error"
    THEN "released"
    ELSE t

\* the first __anext__(): validation, then the adapter's POST and its run to the
\* first yield, or the non-streaming completion and the single chunk
PullFirst ==
    /\ gen = "created"
    /\ LET v == validate_model_request(st_req)
           provider == v.model.provider
       IN  IF v.kind = "ApiError"
           THEN Relay(Throw(ValidationFailed(v), 0, NoneVal, NoneVal, <<>>))
           ELSE IF provider \in NativeStreaming
           THEN IF st_reply.kind = "ok"
                THEN Relay(resume(provider, st_lines, 0, FALSE,
                                  SynthesizedId(provider), st_req.model, <<>>))
                ELSE Relay(Throw(stream_open_error(provider, st_reply),
                                 0, NoneVal, NoneVal, <<>>))
           ELSE LET out == fallback_complete(provider, st_req, st_reply)
                IN  IF out.kind = "return"
                    THEN Relay(Yield(fallback_chunk(out.resp), 0, "single",
                                     NoneVal, NoneVal, <<>>))
                    ELSE Relay(Throw(out, 0, NoneVal, NoneVal, <<>>))
    /\ LET v == validate_model_request(st_req)
       IN  transport' =
             IF v.kind = "return" /\ v.model.provider \in NativeStreaming
             THEN IF st_reply.kind = "ok"
                  THEN transport_after("open",
                           resume(v.model.provider, st_lines, 0, FALSE,
                                  SynthesizedId(v.model.provider), st_req.model, <<>>),
                           st_lines)
                  ELSE IF st_reply.kind = "http_error" THEN "open"
                  ELSE transport
             ELSE transport
    /\ st_calls' = stream_calls(st_req)
    /\ UNCHANGED <<st_req, st_reply, st_lines, regVars, rdVars, cpVars, avVars>>

\* a later __anext__() while the adapter's generator is suspended at the yield
\* of a content chunk
PullAfterContent ==
    /\ gen = "content"
    /\ Relay(resume(validate_model_request(st_req).model.provider, st_lines, st_pos,
                    TRUE, st_chunk_id, st_model, st_acc))
    /\ transport' = transport_after(transport,
                        resume(validate_model_request(st_req).model.provider, st_lines,
                               st_pos, TRUE, st_chunk_id, st_model, st_acc),
                        st_lines)
    /\ UNCHANGED <<st_calls, st_req, st_reply, st_lines, regVars, rdVars, cpVars, avVars>>

\* a later __anext__() after a chunk with is_last_chunk=True: the adapter's
\* `break` leaves the loop (the fallback has nothing after its yield) and the
\* generator ends
PullAfterLast ==
    /\ gen \in {"terminal", "single"}
    /\ Relay(End(st_pos, st_chunk_id, st_model, st_acc))
    /\ UNCHANGED <<transport, st_calls, st_req, st_reply, st_lines, regVars, rdVars, cpVars,
                   avVars>>

\* The client disconnects while a content chunk is the last one delivered: the
\* server closes generate(), its finally clause closes the event loop, and
\* __anext__() is never called again. Nothing closes the async generator or
\* the response it holds.
Cancel ==
    /\ gen = "content"
    /\ gen' = "cancelled"
    /\ UNCHANGED <<st_req, st_reply, st_lines, st_pos, st_chunk_id, st_model, st_acc,
                   st_chunks, st_err, sse, transport, st_calls, regVars, rdVars,
                   cpVars,
                   avVars>>

\* The interpreter finalizes the abandoned generator and the response object it
\* refers to, which closes the connection. When this happens, if at all, is up
\* to the interpreter's memory management, not to the program.
Finalize ==
    /\ gen \in {"ended", "raised", "cancelled"}
    /\ transport = "open"
    /\ transport' = "released"
    /\ UNCHANGED <<gen, st_req, st_reply, st_lines, st_pos, st_chunk_id, st_model,
                   st_acc, st_chunks, st_err, sse, st_calls, regVars, rdVars, cpVars,
                   avVars>>

\* ------------------------------------------------- stream input sets
StreamLines ==
    { Frame("chatcmpl-1", "gpt-4o-2024", <<"Hello">>, NoneVal),
      Frame("chatcmpl-2", "other-model", <<" world">>, NoneVal),
      Frame("chatcmpl-1", NoneVal, <<>>, NoneVal),
      Frame(NoneVal, NoneVal, <<>>, "stop"),
      Frame(NoneVal, NoneVal, <<>>, "length"),
      Frame(NoneVal, NoneVal, <<>>, ""),
      Frame(NoneVal, NoneVal, <<"!">>, "stop"),
      [Line("json") EXCEPT !.choices = "empty"],
      Line("json"), Line("done"), Line("bad"), Line("undecodable"), Line("blank"),
      Line("nonobj"),
      Line("transport_error") }

LineSeqs == UNION {[1..n -> StreamLines] : n \in 0..MaxLines}

Bodies ==
    {[id |-> i, model |-> m, choices |-> c,
      content |-> IF c = "one" THEN <<"hello">> ELSE <<>>, usage |-> u] :
        i \in {"cmpl-1", NoneVal}, m \in {"deepseek-chat-0324", NoneVal},
        c \in {"absent", "empty", "one"}, u \in {"absent", "present"}}

ErrorReplies ==
    {ConnError}
    \cup {ErrReply(st, e) : st \in {400, 401, 429, 500},
                           e \in {"message", "nomessage", "error_str", "not_json"}}

CompletionReplies == {OkReply(b) : b \in Bodies} \cup {NotJson} \cup ErrorReplies
OpenReplies == {OkReply(NoBody)} \cup ErrorReplies

StreamRequests ==
    [model : {"gpt-4o", "qwen-max", "deepseek-chat", "claude-3", "not-a-real-model"},
     provider : {NoneVal, OPENAI}]

\* the upstream is called only by a request that passes validation; lines are
\* read only from a stream that a native adapter opened
RepliesFor(request) ==
    LET v == validate_model_request(request)
    IN  IF v.kind = "ApiError" THEN {NoCompletionReply}
        ELSE IF v.model.provider \in NativeStreaming THEN OpenReplies
        ELSE CompletionReplies

LinesFor(request, reply) ==
    LET v == validate_model_request(request)
    IN  IF v.kind = "return" /\ v.model.provider \in NativeStreaming /\ reply.kind = "ok"
        THEN LineSeqs
        ELSE {<<>>}

NextStream ==
    \/ /\ gen = "none"
       /\ \E request \in StreamRequests :
            \E reply \in RepliesFor(request) :
              \E lines \in LinesFor(request, reply) :
                CreateStream(request, reply, lines)
    \/ PullFirst
    \/ PullAfterContent
    \/ PullAfterLast
    \/ Cancel
    \/ Finalize

SpecStream == Init /\ [][NextStream]_vars

\* --------------------------------------------- completion calls
\* one call of an adapter's generate_completion(request), the upstream
\* answering its POST with reply
AdapterComplete(provider, request, reply) ==
    /\ cp_op' = "adapter"
    /\ cp_provider' = provider
    /\ cp_req' = request
    /\ cp_reply' = reply
    /\ cp_out' = complete_by(provider, request, reply)
    /\ cp_calls' = {Call(provider, "generate_completion")}
    /\ UNCHANGED <<regVars, rdVars, stVars, avVars>>

\* one call of AIService.generate_completion(request); the upstream is called
\* only when the request passes validation
GenerateCompletion(request, reply) ==
    /\ (reply = NoCompletionReply)
          <=> (validate_model_request(request).kind = "ApiError")
    /\ cp_op' = "dispatch"
    /\ cp_provider' = NoneVal
    /\ cp_req' = request
    /\ cp_reply' = reply
    /\ cp_out' = generate_completion(request, reply)
    /\ cp_calls' = completion_calls(request)
    /\ UNCHANGED <<regVars, rdVars, stVars, avVars>>

NextComplete ==
    \/ \E provider \in AIProvider, request \in StreamRequests,
          reply \in CompletionReplies : AdapterComplete(provider, request, reply)
    \/ \E request \in StreamRequests, reply \in CompletionReplies \cup {NoCompletionReply} :
          GenerateCompletion(request, reply)

SpecComplete == Init /\ [][NextComplete]_vars

\* ------------------------------------------- availability probes
\* the default of each api_key in load_config, which check_availability
\* compares the key with
Placeholder(provider) ==
    CASE provider = OPENAI -> "your_openai_api_key_here"
      [] provider = DEEPSEEK -> "your_deepseek_api_key_here"
      [] provider = LITELLM -> "your_litellm_api_key_here"
      [] provider = OPENAI_COMPATIBLE -> "your_openai_compatible_api_key_here"

\* a check that takes every non-empty key as configured
key_configured_nonempty(provider, key) == key # ""

\* not (not api_key or api_key == "<placeholder>")
key_configured(provider, key) == key # "" /\ key # Placeholder(provider)

\* OpenAICompatibleService.COMMON_MODELS
COMMON_MODELS == <<"local-model", "llama3", "qwen-max", "deepseek-v3", "gemini-pro">>

\* the adapter's check_availability
check_availability(provider, configured, up) ==
    CASE provider = OPENAI -> openai_check_availability(configured, up.out)
      [] provider = DEEPSEEK -> deepseek_check_availability(configured, up.out)
      [] provider = LITELLM -> litellm_check_availability(configured, up.reply)
      [] provider = OPENAI_COMPATIBLE ->
            openai_compatible_check_availability(configured, up.out)

\* the requests.get / requests.post calls one check_availability makes
upstream_calls(provider, configured, up) ==
    IF ~configured THEN 0
    ELSE IF provider # OPENAI_COMPATIBLE THEN 1
    ELSE IF up.out = "ok200" THEN 1
    ELSE IF up.chat = 0 THEN 1 + Len(COMMON_MODELS)
    ELSE 1 + up.chat

\* one call of an adapter's check_availability()
CheckAvailability(provider, key, up) ==
    /\ av_provider' = provider
    /\ av_key' = key
    /\ av_up' = up
    /\ av_out' = check_availability(provider, key_configured(provider, key), up)
    /\ av_calls' = upstream_calls(provider, key_configured(provider, key), up)
    /\ UNCHANGED <<regVars, rdVars, stVars, cpVars>>

ApiKeys == {"", "sk-live"} \cup {Placeholder(p) : p \in AIProvider}
ProbeOutcomes == {"ok200", "ok2xx", "status_err", "conn_error"}

\* the answers that matter to the adapter
UpstreamsFor(provider) ==
    IF provider = LITELLM
    THEN {Upstream("conn_error", r, 0) : r \in ProbeReplies}
    ELSE IF provider = OPENAI_COMPATIBLE
    THEN {Upstream(o, NoReply, c) : o \in ProbeOutcomes, c \in 0..Len(COMMON_MODELS)}
    ELSE {Upstream(o, NoReply, 0) : o \in ProbeOutcomes}

NextAvail ==
    \E provider \in AIProvider, key \in ApiKeys :
        \E up \in UpstreamsFor(provider) : CheckAvailability(provider, key, up)

SpecAvail == Init /\ [][NextAvail]_vars

\* ==================================================================
\* Properties
\* ==================================================================
Range(seq) == {seq[i] : i \in 1..Len(seq)}

\* C1: whatever the registry holds, a request whose model id is the id of no
\* model of the combined catalog fails validation with an ApiError of
\* status_code 400 and code MODEL_NOT_FOUND.
C1_UnknownModelNotFound ==
    (op = "validate" /\ vreq.model \notin ListIds(get_all_models))
        => /\ vres.kind = "ApiError"
           /\ vres.status_code = 400
           /\ vres.code = "MODEL_NOT_FOUND"

\* an unknown id was validated while the litellm catalog held fetched models
C1_Witness ==
    /\ op = "validate"
    /\ vreq.model = "not-a-real-model"
    /\ LitellmCatalog # <<>>
    /\ vres.code = "MODEL_NOT_FOUND"

\* C2: when the model id resolves and the request names another provider than
\* the resolved model's, validation fails with status_code 400 and code
\* PROVIDER_MODEL_MISMATCH and the message names the resolved and the requested
\* provider; when the provider is unset or equal, the resolved model is returned.
C2_ProviderMismatch ==
    (op = "validate" /\ vreq.model \in ListIds(ALL_MODELS))
        => LET m == FirstMatch(ALL_MODELS, vreq.model)
           IN  IF vreq.provider # NoneVal /\ vreq.provider # m.provider
               THEN /\ vres.kind = "ApiError"
                    /\ vres.status_code = 400
                    /\ vres.code = "PROVIDER_MODEL_MISMATCH"
                    /\ Fmt(m.provider) \in Range(vres.message)
                    /\ Fmt(vreq.provider) \in Range(vres.message)
               ELSE /\ vres.kind = "return"
                    /\ vres.model = m
                    /\ vres.model.id = vreq.model

\* a request for a deepseek model that names the openai provider was refused
C2_Witness ==
    /\ op = "validate"
    /\ vreq.model = "deepseek-chat"
    /\ vreq.provider = OPENAI
    /\ vres.code = "PROVIDER_MODEL_MISMATCH"

\* the catalogs that hold a model with this id
CatalogsWith(id) ==
    {c \in AIProvider :
        id \in ListIds(CASE c = OPENAI -> OPENAI_MODELS
                         [] c = DEEPSEEK -> DEEPSEEK_MODELS
                         [] c = LITELLM -> LitellmCatalog
                         [] c = OPENAI_COMPATIBLE -> OPENAI_COMPATIBLE_MODELS)}

\* C3: the combined list is openai ++ deepseek ++ litellm ++ openai_compatible,
\* and an id that occurs in more than one catalog resolves, in validation, to
\* the model of the first catalog in that order.
C3_FirstCatalogWins ==
    /\ get_all_models =
         OPENAI_MODELS \o DEEPSEEK_MODELS \o LitellmCatalog \o OPENAI_COMPATIBLE_MODELS
    /\ (op = "validate" /\ vreq.provider = NoneVal
            /\ Cardinality(CatalogsWith(vreq.model)) > 1)
         => /\ vres.kind = "return"
            /\ vres.model = FirstMatch(get_all_models, vreq.model)

\* C4: validation resolves against the registry as it is at the time of the
\* dispatch: once update_litellm_models(M) has completed, an id of M that is in
\* no earlier catalog resolves to its litellm model, and an id that is in no
\* current catalog (one only the replaced catalog held) fails with
\* MODEL_NOT_FOUND.
C4_ValidationSeesCurrentRegistry ==
    (op = "validate" /\ vreq.provider = NoneVal)
        => /\ (/\ vreq.model \in ListIds(LitellmCatalog)
               /\ vreq.model \notin ListIds(OPENAI_MODELS \o DEEPSEEK_MODELS))
                 => /\ vres.kind = "return"
                    /\ vres.model = AIModel(vreq.model, LITELLM)
           /\ vreq.model \notin ListIds(get_all_models)
                 => vres.code = "MODEL_NOT_FOUND"

\* C5: a reader that runs concurrently with update_litellm_models observes, as
\* the litellm part of the combined list, a sequence that was the whole litellm
\* catalog at some moment of the read: the old one or a new one, never a
\* mixture of both.
C5_ReaderSeesWholeCatalog ==
    rd_pc = "done"
        => /\ Len(rd_result) >= Len(CombinedWith(<<>>))
           /\ SubSeq(rd_result, Len(OPENAI_MODELS) + Len(DEEPSEEK_MODELS) + 1,
                     Len(rd_result) - Len(OPENAI_COMPATIBLE_MODELS)) \in rd_seen
           /\ rd_result \in {CombinedWith(c) : c \in rd_seen}

\* a read of a two-model catalog finished after the catalog had been replaced
\* by two other models during the read
C5_Witness ==
    /\ rd_pc = "done"
    /\ rd_updates > 0
    /\ Len(rd_acc) = 2
    /\ Len(LitellmCatalog) = 2
    /\ rd_acc # LitellmCatalog
    /\ rd_acc[1] # LitellmCatalog[1]
    /\ rd_acc[2] # LitellmCatalog[2]

\* the fetch did not deliver a model list: the request failed or the payload
\* made get_models raise
ShapeFailed(reply) == reply.kind = "json" /\ get_models(TRUE, reply).kind = "raise"
FetchFailed(reply) == RequestFailed(reply) \/ ShapeFailed(reply)

C7_FailedAvailabilityRefreshEmpties ==
    (op = "get_available_providers" /\ Truthy(ret.providers[LITELLM])
        /\ FetchFailed(fetch)) => LitellmCatalog = <<>>

\* C7 (amended): in get_available_providers, when the litellm probe reports
\* available, a model fetch whose request fails (no response, an error status,
\* a body that is not JSON) leaves the litellm catalog empty, and a fetch whose
\* JSON payload has an unexpected shape (get_models raises) leaves the catalog
\* as it was.
C7_AvailabilityRefreshOnFailure ==
    (op = "get_available_providers" /\ fetch # NoReply)
        => /\ RequestFailed(fetch) => LitellmCatalog = <<>>
           /\ ShapeFailed(fetch) => LitellmCatalog = prior

\* the probe reported available, the fetched payload had an entry without id,
\* and the non-empty catalog was kept
C7_Witness ==
    /\ op = "get_available_providers"
    /\ Truthy(ret.providers[LITELLM])
    /\ ShapeFailed(fetch)
    /\ prior # <<>>
    /\ LitellmCatalog = prior

\* the provider validation resolves the streamed request to ("None" if none)
StreamProvider ==
    LET v == validate_model_request(st_req)
    IN  IF v.kind = "return" THEN v.model.provider ELSE NoneVal

\* the generator has been resumed at least once
Pulled == gen \in {"content", "terminal", "single", "ended", "raised"}

\* C8: for a request that resolves to a provider without native streaming
\* (deepseek, litellm) and whose non-streaming completion succeeds,
\* generate_stream yields exactly one chunk and then ends; the chunk has
\* is_last_chunk = true, finish_reason = "stop" and the id, model, provider and
\* content of the response generate_completion returns for the same request
\* and the same upstream reply.
C8_FallbackSingleChunk ==
    LET c == generate_completion(st_req, st_reply)
    IN  (Pulled /\ StreamProvider \in {DEEPSEEK, LITELLM} /\ c.kind = "return")
            => /\ gen \in {"single", "ended"}
               /\ Len(st_chunks) = 1
               /\ st_chunks[1].is_last_chunk = TRUE
               /\ st_chunks[1].finish_reason = "stop"
               /\ st_chunks[1].id = c.resp.id
               /\ st_chunks[1].model = c.resp.model
               /\ st_chunks[1].provider = c.resp.provider
               /\ st_chunks[1].content = c.resp.content

\* the stream of a deepseek request ended after its single chunk "hello"
C8_Witness ==
    /\ gen = "ended"
    /\ st_req.model = "deepseek-chat"
    /\ Len(st_chunks) = 1
    /\ st_chunks[1].content = <<"hello">>
    /\ st_chunks[1].provider = DEEPSEEK

\* a frame that carries a non-empty content delta and no finish_reason
IsDelta(l) ==
    l.kind = "json" /\ l.choices = "one" /\ l.content # <<>> /\ l.finish = NoneVal

\* a frame that carries a non-null finish_reason and no content
IsFinish(l) ==
    l.kind = "json" /\ l.choices = "one" /\ l.content = <<>> /\ l.finish # NoneVal

\* n >= 0 delta frames followed by one finish frame
DeltasThenFinish(lines) ==
    /\ Len(lines) >= 1
    /\ \A i \in 1..(Len(lines) - 1) : IsDelta(lines[i])
    /\ IsFinish(lines[Len(lines)])

\* a native adapter opened the stream and its generator is over
NativeOver ==
    /\ StreamProvider \in NativeStreaming
    /\ st_reply.kind = "ok"
    /\ gen \in {"ended", "raised"}

\* the chunks are the deltas of the lines, in order, and then one last chunk
\* with empty content and the finish_reason of the last line
DeltasThenTerminal ==
    LET n == Len(st_lines) - 1
    IN  /\ gen = "ended"
        /\ Len(st_chunks) = n + 1
        /\ \A i \in 1..n :
              /\ st_chunks[i].content = st_lines[i].content
              /\ st_chunks[i].finish_reason = NoneVal
              /\ st_chunks[i].is_last_chunk = FALSE
        /\ st_chunks[n + 1].content = <<>>
        /\ st_chunks[n + 1].finish_reason = st_lines[n + 1].finish
        /\ st_chunks[n + 1].is_last_chunk = TRUE

\* C9 (as stated): for n >= 0 frames with a non-empty content delta followed by
\* one frame with a non-null finish_reason f, a streaming adapter yields the n
\* deltas in arrival order (finish_reason null, is_last_chunk false), then one
\* chunk with content "", finish_reason f and is_last_chunk true, and ends.
C9_DeltasThenNonNullFinish ==
    (NativeOver /\ DeltasThenFinish(st_lines)) => DeltasThenTerminal

\* C9 (amended): the same for a finish frame whose finish_reason f is a
\* non-empty string (a value Python takes as true).
C9_DeltasThenFinish ==
    (NativeOver /\ DeltasThenFinish(st_lines)
        /\ FinishTruthy(st_lines[Len(st_lines)].finish)) => DeltasThenTerminal

\* two deltas and a finish frame "length" gave three chunks
C9_Witness ==
    /\ gen = "ended"
    /\ Len(st_lines) = 3
    /\ DeltasThenFinish(st_lines)
    /\ st_lines[3].finish = "length"
    /\ Len(st_chunks) = 3
    /\ st_chunks[1].content = <<"Hello">>
    /\ st_chunks[2].content = <<" world">>
    /\ st_chunks[3].finish_reason = "length"

\* C10: a chunk sequence of a streaming adapter that ends without an error
\* holds exactly one chunk with is_last_chunk = true, whatever the upstream
\* sends, also when the upstream closes without a finish_reason frame or [DONE].
C10_ExactlyOneLastChunk ==
    (StreamProvider \in NativeStreaming /\ gen = "ended")
        => Cardinality({i \in 1..Len(st_chunks) : st_chunks[i].is_last_chunk}) = 1

\* a line the loop passes without raising and without a non-null finish_reason
PassedLine(l) ==
    \/ l.kind \in {"blank", "bad"}
    \/ l.kind = "json" /\ l.choices # "empty" /\ l.finish = NoneVal

\* line k is [DONE] and the loop gets to it: no line before it ends the stream
DoneAt(lines, k) ==
    /\ k \in 1..Len(lines)
    /\ lines[k].kind = "done"
    /\ \A i \in 1..(k - 1) : PassedLine(lines[i])

\* the content deltas of the first k lines, concatenated in arrival order
RECURSIVE DeltasUpTo(_, _)
DeltasUpTo(lines, k) ==
    IF k = 0 THEN <<>>
    ELSE DeltasUpTo(lines, k - 1)
         \o (IF lines[k].kind = "json" /\ lines[k].choices = "one"
             THEN lines[k].content ELSE <<>>)

\* a native adapter opened the stream of the request
NativeOpened == StreamProvider \in NativeStreaming /\ st_reply.kind = "ok"

Unparseable(l) == l.kind \in {"bad", "undecodable"}

\* the lines without the unparseable ones
RECURSIVE WithoutUnparseable(_)
WithoutUnparseable(lines) ==
    IF lines = <<>> THEN <<>>
    ELSE IF Unparseable(Head(lines)) THEN WithoutUnparseable(Tail(lines))
    ELSE <<Head(lines)>> \o WithoutUnparseable(Tail(lines))

\* the whole run of an adapter's generator over the lines, pulled until it
\* ends or raises: the chunks it yields and how it stops
RECURSIVE Drain(_, _, _, _, _, _, _, _)
Drain(provider, lines, pos, after_content, id, model, acc, chunks) ==
    LET r == resume(provider, lines, pos, after_content, id, model, acc)
    IN  IF r.outcome = "yield"
        THEN IF r.susp = "content"
             THEN Drain(provider, lines, r.pos, TRUE, r.id, r.model, r.acc,
                        Append(chunks, r.chunk))
             ELSE [chunks |-> Append(chunks, r.chunk), stop |-> "ended"]
        ELSE [chunks |-> chunks, stop |-> r.susp]

\* C12: a frame that fails to parse as JSON never ends the stream and never
\* produces a chunk: the chunks of a stream (content, finish_reason,
\* is_last_chunk, id, model) and the way it stops are those of the same lines
\* with the unparseable frames taken out.
C12_UnparseableFramesSkipped ==
    (NativeOpened /\ gen \in {"ended", "raised"}) =>
        LET d == Drain(StreamProvider, WithoutUnparseable(st_lines), 0, FALSE,
                       SynthesizedId(StreamProvider), st_req.model, <<>>, <<>>)
        IN  st_chunks = d.chunks /\ gen = d.stop

\* the id of the first of the first k lines that carries one, else the placeholder
RECURSIVE FirstId(_, _, _)
FirstId(lines, k, placeholder) ==
    IF k = 0 THEN placeholder
    ELSE LET before == FirstId(lines, k - 1, placeholder)
         IN  IF before # placeholder THEN before
             ELSE IF lines[k].kind = "json" /\ lines[k].id # NoneVal THEN lines[k].id
             ELSE placeholder

\* the model of the first of the first k lines that carries one, else the placeholder
RECURSIVE FirstModel(_, _, _)
FirstModel(lines, k, placeholder) ==
    IF k = 0 THEN placeholder
    ELSE LET before == FirstModel(lines, k - 1, placeholder)
         IN  IF before # placeholder THEN before
             ELSE IF lines[k].kind = "json" /\ lines[k].model # NoneVal
             THEN lines[k].model
             ELSE placeholder

\* C13: within one stream, id and model start as placeholders (a synthesized id
\* and the request's model), take the values of the first frame that carries
\* them and are then held fixed: a chunk yielded when k lines have been read
\* carries the id and the model of the first of these lines that carries one,
\* also when a later line carries another id or model.
C13_IdAndModelHeldFixed ==
    (NativeOpened /\ gen \in {"content", "terminal"}) =>
        /\ st_chunks[Len(st_chunks)].id
              = FirstId(st_lines, st_pos, SynthesizedId(StreamProvider))
        /\ st_chunks[Len(st_chunks)].model
              = FirstModel(st_lines, st_pos, st_req.model)

\* C14: a streaming completion that fails (validation error, upstream HTTP
\* error before the first frame, transport failure after some chunks) is seen
\* by the client as one SSE error frame followed by the frame data: [DONE]:
\* whatever is raised while stream_completion.generate pulls the chunks, the
\* SSE output ends with exactly one [DONE] frame.
C14_FailedStreamEndsWithDone ==
    gen = "raised" =>
        /\ Len(sse) >= 2
        /\ sse[Len(sse)] = SseDone
        /\ sse[Len(sse) - 1].kind = "error"
        /\ Cardinality({i \in 1..Len(sse) : sse[i].kind = "done"}) = 1
        /\ Cardinality({i \in 1..Len(sse) : sse[i].kind = "error"}) = 1

\* the transport failed at the line just read, after a chunk had been yielded
FailedMidStream ==
    /\ NativeOpened
    /\ st_pos >= 1
    /\ st_lines[st_pos].kind = "transport_error"
    /\ \E i \in 1..(st_pos - 1) : IsDelta(st_lines[i])

\* C15: when the upstream transport fails after a streaming adapter has yielded
\* at least one chunk, its chunk sequence yields one terminal error-shaped
\* chunk and then ends normally (the generator does not raise).
C15_MidStreamFailureIsTerminalChunk ==
    FailedMidStream =>
        /\ gen \in {"terminal", "ended"}
        /\ Len(st_chunks) >= 2
        /\ st_chunks[Len(st_chunks)].is_last_chunk
        /\ \A i \in 1..(Len(st_chunks) - 1) : ~st_chunks[i].is_last_chunk

\* the adapter's provider tag in upper case
Tag(provider) ==
    CASE provider = OPENAI -> "OPENAI"
      [] provider = DEEPSEEK -> "DEEPSEEK"
      [] provider = LITELLM -> "LITELLM"
      [] provider = OPENAI_COMPATIBLE -> "OPENAI_COMPATIBLE"

\* the documented table from an upstream HTTP error status to a DomainError
StatusTable(tag, s) ==
    CASE s = 401 -> Failed(401, <<tag, "UNAUTHORIZED">>)
      [] s = 429 -> Failed(429, <<tag, "RATE_LIMIT">>)
      [] s = 400 -> Failed(400, <<tag, "BAD_REQUEST">>)
      [] OTHER -> Failed(s, <<tag, "API_ERROR">>)

\* C16: for each of the four adapters and every upstream HTTP error status s
\* returned to a completion call, the adapter fails with the DomainError of one
\* table: 401 -> (401, TAG_UNAUTHORIZED), 429 -> (429, TAG_RATE_LIMIT),
\* 400 -> (400, TAG_BAD_REQUEST), any other s -> (s, TAG_API_ERROR); only the
\* tag differs between adapters.
C16_StatusTable ==
    (cp_op = "adapter" /\ cp_reply.kind = "http_error")
        => cp_out = StatusTable(Tag(cp_provider), cp_reply.status)

\* C17: for each of the four adapters, a completion call for which no HTTP
\* response is received (connection failure, timeout) fails with a DomainError
\* with status_code 500 and code TAG_CONNECTION_ERROR.
C17_NoResponseIsConnectionError ==
    (cp_op = "adapter" /\ cp_reply.kind = "conn_error")
        => cp_out = Failed(500, <<Tag(cp_provider), "CONNECTION_ERROR">>)

\* a call outcome that is a normal return or a DomainError (ApiError)
ReturnedOrDomainError(out) == out.kind = "return" \/ out.exc = "ApiError"

\* C18: no adapter lets an unmapped exception escape complete or stream: for
\* every upstream outcome (also a 2xx body without id, model or choices, an
\* error body that is not JSON, a stream frame with an empty choices list or a
\* JSON value that is no object) the call returns normally or fails with a
\* DomainError.
C18_OnlyDomainErrorsEscape ==
    /\ cp_op = "adapter" => ReturnedOrDomainError(cp_out)
    /\ (NativeOpened /\ gen = "raised") => ReturnedOrDomainError(st_err)

\* every probe call of the check fails: a network error, a non-200 status or
\* an unexpected payload
ProbingFails(provider, up) ==
    IF provider = LITELLM
    THEN \/ RequestFailed(up.reply)
         \/ up.reply.shape # "object"
         \/ up.reply.data.kind # "list"
    ELSE IF provider = OPENAI_COMPATIBLE
    THEN up.out # "ok200" /\ up.chat = 0
    ELSE up.out # "ok200"

\* C19: for each of the four adapters, check_availability never raises, and it
\* returns false whenever its upstream probing fails (every probe call ends in
\* a network error, a non-200 status or an unexpected payload).
C19_FailedProbingIsFalse ==
    av_provider # NoneVal =>
        /\ av_out.kind = "return"
        /\ (key_configured(av_provider, av_key) /\ ProbingFails(av_provider, av_up))
              => av_out = ProbeReturn("False")

\* C20: for each of the four adapters, when the configured API key is empty or
\* equal to that provider's placeholder string, check_availability returns
\* false and makes no upstream call.
C20_NoKeyNoCall ==
    (av_provider # NoneVal /\ av_key \in {"", Placeholder(av_provider)})
        => av_out = ProbeReturn("False") /\ av_calls = 0

\* a check with the placeholder key, the upstream being ready to answer 200
C20_Witness ==
    /\ av_provider = OPENAI_COMPATIBLE
    /\ av_key = Placeholder(OPENAI_COMPATIBLE)
    /\ av_up.out = "ok200"
    /\ av_out = ProbeReturn("False")
    /\ av_calls = 0

\* what each provider's own probe yields in the last get_available_providers
OwnProbe(p) ==
    CASE p = OPENAI -> openai_check_availability(cfg[OPENAI], others.openai)
      [] p = DEEPSEEK -> deepseek_check_availability(cfg[DEEPSEEK], others.deepseek)
      [] p = LITELLM -> litellm_check_availability(cfg[LITELLM], probe)
      [] p = OPENAI_COMPATIBLE ->
            openai_compatible_check_availability(cfg[OPENAI_COMPATIBLE],
                                                 others.openai_compatible)

\* C21: in get_available_providers the four probes are isolated: whatever
\* happens in one provider's check_availability (also an exception escaping
\* it), the call returns a map with all four providers, and the value of each
\* other provider is what that provider's own probe yields.
C21_ProbesIsolated ==
    op = "get_available_providers" =>
        /\ ret.kind = "return"
        /\ \A p \in AIProvider :
              OwnProbe(p).kind = "return" => ret.providers[p] = OwnProbe(p).value

\* C22: get_available_providers attempts a litellm catalog refresh if and only
\* if the litellm probe reported available, and the map it returns holds the
\* four probe results whether the refresh succeeds, returns an empty list or
\* fails in any way.
C22_RefreshNeverChangesMap ==
    (op = "get_available_providers" /\ OwnProbe(LITELLM).kind = "return") =>
        /\ (fetch # NoReply) <=> Truthy(OwnProbe(LITELLM).value)
        /\ ret.kind = "return"
        /\ \A p \in AIProvider : ret.providers[p] = OwnProbe(p).value

\* the refresh raised inside get_models and the map was returned all the same
C22_Witness ==
    /\ op = "get_available_providers"
    /\ ShapeFailed(fetch)
    /\ ret.kind = "return"
    /\ ret.providers[LITELLM] = "True"
    /\ ret.providers[OPENAI] = "False"

\* C23: if the caller stops consuming a streaming response before the terminal
\* chunk (client disconnect), no further frame is read from the upstream and
\* the upstream transport is released: an open transport never outlives a
\* cancelled or finished stream.
C23_TransportReleasedWithStream ==
    gen \in {"cancelled", "ended"} => transport # "open"

\* C24: for each of the four adapters and every 2xx upstream reply to a
\* completion call, the returned CompletionResponse has the adapter's provider,
\* the first choice's message text as content, content "" when the reply has
\* no choices (absent or empty), and usage {0,0,0} when the reply omits usage.
C24_CompletionFromReply ==
    (cp_op = "adapter" /\ cp_reply.kind = "ok") =>
        /\ cp_out.kind = "return"
        /\ cp_out.resp.provider = cp_provider
        /\ cp_out.resp.content
              = (IF cp_reply.body.choices = "one" THEN cp_reply.body.content ELSE <<>>)
        /\ cp_reply.body.usage = "absent" => cp_out.resp.usage = NoUsage
        /\ cp_reply.body.usage = "present" => cp_out.resp.usage = UpstreamUsage

\* the error of a provider without an adapter in the dispatch table
UnsupportedProvider == Failed(500, <<"UNSUPPORTED_PROVIDER">>)

\* C25: generate_completion and generate_stream fail with UNSUPPORTED_PROVIDER
\* (500) exactly when the resolved model's provider has no adapter in the
\* dispatch table; for a model of one of the four registered providers they
\* never fail with UNSUPPORTED_PROVIDER, whatever the upstream replies.
C25_UnsupportedOnlyWithoutAdapter ==
    /\ (cp_op = "dispatch"
          /\ validate_model_request(cp_req).kind = "return"
          /\ validate_model_request(cp_req).model.provider \in AIProvider)
        => cp_out # UnsupportedProvider
    /\ (gen = "raised" /\ StreamProvider \in AIProvider) => st_err # UnsupportedProvider

\* the models of provider p in the combined list, as the listing filters them
CatalogOf(p) == SelectSeq(get_all_models, LAMBDA m : m.provider = p)

\* C26: catalogs change only by whole-catalog replacement of the dynamic
\* catalog: after update_litellm_models(M) the litellm catalog is exactly M
\* (empty when M is empty or None, no entry of the previous catalog kept), and
\* no operation changes the openai, deepseek or openai_compatible catalogs.
C26_WholeCatalogReplacement ==
    /\ arg # NoArg =>
          /\ LitellmCatalog = (IF arg.kind = "list" THEN arg.items ELSE <<>>)
          /\ CatalogOf(LITELLM) = LitellmCatalog
    /\ CatalogOf(OPENAI) = OPENAI_MODELS
    /\ CatalogOf(DEEPSEEK) = DEEPSEEK_MODELS
    /\ CatalogOf(OPENAI_COMPATIBLE) = OPENAI_COMPATIBLE_MODELS

\* a non-empty catalog was replaced by update_litellm_models(None)
C26_Witness ==
    /\ op = "update_litellm_models"
    /\ arg = PyNone
    /\ prior # <<>>
    /\ LitellmCatalog = <<>>

IsTerminalLine(l) ==
    \/ l.kind = "done"
    \/ l.kind = "json" /\ l.choices = "one" /\ FinishTruthy(l.finish)

\* C28: in every chunk sequence of generate_stream, for every upstream frame
\* sequence, no chunk follows a chunk with is_last_chunk = true, every chunk
\* before it has is_last_chunk = false and finish_reason = null, and no
\* upstream frame is read after the terminal chunk has been yielded: the read
\* position stays at the frame that produced it (at 0 for the fallback, which
\* reads no frame), also after the generator has ended.
C28_NothingAfterLastChunk ==
    \A i \in 1..Len(st_chunks) :
        st_chunks[i].is_last_chunk =>
            /\ i = Len(st_chunks)
            /\ \A k \in 1..(i - 1) :
                  /\ st_chunks[k].is_last_chunk = FALSE
                  /\ st_chunks[k].finish_reason = NoneVal
            /\ gen \in {"terminal", "single", "ended"}
            /\ IF StreamProvider \in NativeStreaming
               THEN /\ st_pos \in 1..Len(st_lines)
                    /\ IsTerminalLine(st_lines[st_pos])
                    /\ \A k \in 1..(st_pos - 1) : ~IsTerminalLine(st_lines[k])
               ELSE st_pos = 0

\* a native stream yielded a content chunk and then its terminal chunk at the
\* second of three frames, and ended without reading the third
C28_Witness ==
    /\ gen = "ended"
    /\ StreamProvider \in NativeStreaming
    /\ Len(st_chunks) = 2
    /\ st_chunks[2].is_last_chunk
    /\ st_pos = 2
    /\ Len(st_lines) = 3

\* full_content of generate_streaming_completion: the content of the chunks,
\* the terminal chunk included, appended in order
RECURSIVE full_content(_)
full_content(chunks) ==
    IF chunks = <<>> THEN <<>>
    ELSE chunks[1].content \o full_content(Tail(chunks))

\* C29: for every stream of generate_stream that reached its terminal chunk,
\* the contents of all yielded chunks, concatenated in order with the terminal
\* chunk included, are exactly the completion text: the concatenation of the
\* upstream content deltas for a native stream ended by a finish_reason frame
\* or by [DONE], the content of the completion for the single-chunk fallback;
\* no part of it is repeated.
C29_ChunksConcatenateToText ==
    (/\ gen \in {"terminal", "single", "ended"}
     /\ st_chunks # <<>>
     /\ st_chunks[Len(st_chunks)].is_last_chunk)
        => IF StreamProvider \in NativeStreaming
           THEN full_content(st_chunks) = st_acc
           ELSE full_content(st_chunks) = generate_completion(st_req, st_reply).resp.content

\* get_available_providers returned and its litellm probe reported unavailable
LitellmReportedUnavailable ==
    /\ op = "get_available_providers"
    /\ ret.kind = "return"
    /\ ~Truthy(ret.providers[LITELLM])

\* the catalog is as it was and its models are in the combined list
CatalogKept ==
    /\ LitellmCatalog = prior
    /\ \A i \in 1..Len(prior) :
          \E j \in 1..Len(get_all_models) : get_all_models[j] = prior[i]

\* C30: when the litellm probe in get_available_providers reports unavailable,
\* the litellm catalog is left exactly as it was: the models an earlier
\* successful refresh fetched stay in the combined list and are still resolved
\* by the validation of the dispatcher.
C30_UnavailableKeepsModelsResolvable ==
    LitellmReportedUnavailable
        => /\ CatalogKept
           /\ \A i \in 1..Len(prior) :
                 validate_model_request([model |-> prior[i].id,
                                         provider |-> NoneVal]).kind = "return"

====
